---------------------------- MODULE Spec2Model ----------------------------
(***************************************************************************)
(* Model of the Lighthouse before/after comparator (src/app/page.tsx, the  *)
(* second, current copy of the page starting at line 571).                 *)
(*                                                                         *)
(* JavaScript numbers are modelled as binary floating-point values with a  *)
(* significand of Precision bits (IEEE-754 round-to-nearest, ties-to-even, *)
(* together with +Infinity, -Infinity and NaN).  The exponent range is not *)
(* bounded: the model's inputs stay far from overflow and underflow, and   *)
(* -0 is identified with 0 (no operation modelled here tells them apart).  *)
(***************************************************************************)
EXTENDS Integers, Sequences, FiniteSets, TLC

(***************************************************************************)
(* Bounds of the model.                                                    *)
(***************************************************************************)
\* bits of significand of the modelled floating-point format (53 in JS)
Precision == 10
\* longest list of reports / values handed to a pure function
MaxRuns == 3
\* file edits (add, remove, clear, swap) the user makes in one behaviour
MaxEdits == 4
\* comparisons the user starts in one behaviour
MaxCompares == 2

(***************************************************************************)
(* Values.  Every JavaScript value the model handles is a record with the  *)
(* same three fields, so that any two of them can be compared:             *)
(*   k = "num"   the finite number m * 2^e (m odd, or m = 0 and e = 0)      *)
(*   k = "inf"   +Infinity (m = 1) or -Infinity (m = -1)                   *)
(*   k = "nan"   NaN                                                       *)
(*   k = "null"  null                                                      *)
(*   k = "undef" undefined (an absent property)                            *)
(*   k = "str"   a value of another type (a string, a boolean, an object)  *)
(***************************************************************************)
null == [k |-> "null", m |-> 0, e |-> 0]
undefined == [k |-> "undef", m |-> 0, e |-> 0]
NonNumber == [k |-> "str", m |-> 0, e |-> 0]
NaN == [k |-> "nan", m |-> 0, e |-> 0]
Infinity == [k |-> "inf", m |-> 1, e |-> 0]
NegInfinity == [k |-> "inf", m |-> -1, e |-> 0]
Zero == [k |-> "num", m |-> 0, e |-> 0]

Abs(x) == IF x < 0 THEN -x ELSE x

Sgn(x) == IF x < 0 THEN -1 ELSE IF x = 0 THEN 0 ELSE 1

Pow2(n) == 2 ^ n

Pow10(n) == 10 ^ n

\* the canonical record of the finite number m * 2^e
RECURSIVE Mk(_, _)
Mk(m, e) ==
  IF m = 0 THEN Zero
  ELSE IF m % 2 = 0 THEN Mk(m \div 2, e + 1)
  ELSE [k |-> "num", m |-> m, e |-> e]

\* (a / d) * 2^e for a > 0, d > 0, rounded to Precision significant bits,
\* ties to the even significand; s is the sign
RECURSIVE RoundPos(_, _, _, _)
RoundPos(s, a, d, e) ==
  IF a >= d * Pow2(Precision) THEN RoundPos(s, a, 2 * d, e + 1)
  ELSE IF a < d * Pow2(Precision - 1) THEN RoundPos(s, 2 * a, d, e - 1)
  ELSE LET q == a \div d
           r == a % d
           up == (2 * r > d) \/ (2 * r = d /\ q % 2 = 1)
       IN  Mk(s * (IF up THEN q + 1 ELSE q), e)

\* the floating-point number nearest to the rational (n / d) * 2^e, d > 0
FRound(n, d, e) == IF n = 0 THEN Zero ELSE RoundPos(Sgn(n), Abs(n), d, e)

\* the number a decimal literal n/d of a JSON text or of the source denotes
Lit(n, d) == FRound(n, d, 0)

IsNumber(v) == v.k \in {"num", "inf", "nan"}

IsFinite(v) == v.k = "num"

\* the exact integers nx, ny with x = nx * 2^c and y = ny * 2^c, c the
\* smaller exponent of two finite numbers
Aligned(x, y) ==
  LET c == IF x.e < y.e THEN x.e ELSE y.e
  IN  [nx |-> x.m * Pow2(x.e - c), ny |-> y.m * Pow2(y.e - c), c |-> c]

FNeg(x) == IF x.k = "nan" THEN NaN ELSE [x EXCEPT !.m = -x.m]

\* x + y
FAdd(x, y) ==
  IF x.k = "nan" \/ y.k = "nan" THEN NaN
  ELSE IF x.k = "inf" /\ y.k = "inf" THEN (IF x.m = y.m THEN x ELSE NaN)
  ELSE IF x.k = "inf" THEN x
  ELSE IF y.k = "inf" THEN y
  ELSE LET al == Aligned(x, y) IN FRound(al.nx + al.ny, 1, al.c)

\* x - y
FSub(x, y) == FAdd(x, FNeg(y))

\* x * y
FMul(x, y) ==
  IF x.k = "nan" \/ y.k = "nan" THEN NaN
  ELSE IF x.k = "inf" \/ y.k = "inf"
    THEN (IF x.m = 0 \/ y.m = 0 THEN NaN
          ELSE IF Sgn(x.m) = Sgn(y.m) THEN Infinity ELSE NegInfinity)
  ELSE FRound(x.m * y.m, 1, x.e + y.e)

\* x / y
FDiv(x, y) ==
  IF x.k = "nan" \/ y.k = "nan" THEN NaN
  ELSE IF x.k = "inf"
    THEN (IF y.k = "inf" THEN NaN
          ELSE IF (x.m < 0) = (y.m < 0) THEN Infinity ELSE NegInfinity)
  ELSE IF y.k = "inf" THEN Zero
  ELSE IF y.m = 0
    THEN (IF x.m = 0 THEN NaN ELSE IF x.m > 0 THEN Infinity ELSE NegInfinity)
  ELSE FRound(x.m * Sgn(y.m), Abs(y.m), x.e - y.e)

\* x < y (false when either is NaN)
FLt(x, y) ==
  IF x.k = "nan" \/ y.k = "nan" THEN FALSE
  ELSE IF x.k = "inf" THEN x.m < 0 /\ ~(y.k = "inf" /\ y.m < 0)
  ELSE IF y.k = "inf" THEN y.m > 0
  ELSE LET al == Aligned(x, y) IN al.nx < al.ny

\* x === y on numbers (false when either is NaN)
FEq(x, y) == x.k # "nan" /\ y.k # "nan" /\ x = y

\* x >= y (false when either is NaN)
FGe(x, y) == FLt(y, x) \/ FEq(x, y)

\* the number of an integer of the program (an array length, a literal)
FromInt(n) == FRound(n, 1, 0)

(***************************************************************************)
(* Number.prototype.toFixed and Number(string).                            *)
(***************************************************************************)
\* the integer n for which n / 10^f is nearest to the magnitude of the finite
\* number x, the larger n when two are equally near (toFixed, step "let n
\* be an integer for which n / 10^f - x is as close to zero as possible")
FixedDigits(x, f) ==
  IF x.e >= 0 THEN Abs(x.m) * Pow2(x.e) * Pow10(f)
  ELSE LET d == Pow2(-x.e)
           a == Abs(x.m) * Pow10(f)
       IN  IF 2 * (a % d) >= d THEN (a \div d) + 1 ELSE a \div d

\* the decimal digits of n, at least w of them (zero padded on the left)
RECURSIVE Padded(_, _)
Padded(n, w) ==
  IF w <= 1 /\ n < 10 THEN ToString(n)
  ELSE Padded(n \div 10, w - 1) \o ToString(n % 10)

\* x.toFixed(f)
toFixed(x, f) ==
  IF x.k = "nan" THEN "NaN"
  ELSE IF x.k = "inf" THEN (IF x.m > 0 THEN "Infinity" ELSE "-Infinity")
  ELSE LET n == FixedDigits(x, f)
           s == IF x.m < 0 THEN "-" ELSE ""
       IN  IF f = 0 THEN s \o ToString(n)
           ELSE s \o Padded(n \div Pow10(f), 1) \o "." \o Padded(n % Pow10(f), f)

\* Number(x.toFixed(f)): the text of toFixed read back as a number
NumberOfFixed(x, f) ==
  IF x.k # "num" THEN x
  ELSE Lit(Sgn(x.m) * FixedDigits(x, f), Pow10(f))


(***************************************************************************)
(* JSON.  A parsed JSON value is a node [v, props]: v is the scalar it     *)
(* holds (a number, null, a value of another type), or the marker Object   *)
(* with props mapping the property names it has to nodes.  A JSON text is  *)
(* the same tree whose number leaves are still tokens: a decimal literal   *)
(* n/d (k = "tok", m = n, e = d) or a literal beyond the range of a double *)
(* such as 1e999 or -1e999 (k = "huge", m = 1 or -1).                      *)
(***************************************************************************)
Object == [k |-> "obj", m |-> 0, e |-> 0]
NoProps == [x \in {} |-> 0]
Leaf(v) == [v |-> v, props |-> NoProps]
Obj(props) == [v |-> Object, props |-> props]
JUndefined == Leaf(undefined)
Tok(n, d) == [k |-> "tok", m |-> n, e |-> d]
Huge == [k |-> "huge", m |-> 1, e |-> 0]
NegHuge == [k |-> "huge", m |-> -1, e |-> 0]
\* what a throwing evaluation yields (a TypeError, a SyntaxError)
Thrown == [k |-> "throw", m |-> 0, e |-> 0]

\* the value of one scalar of a JSON text
ParseScalar(t) ==
  IF t.k = "tok" THEN Lit(t.m, t.e)
  ELSE IF t.k = "huge" THEN (IF t.m > 0 THEN Infinity ELSE NegInfinity)
  ELSE t

RECURSIVE ParseNode(_)
ParseNode(n) ==
  [v |-> ParseScalar(n.v),
   props |-> [key \in DOMAIN n.props |-> ParseNode(n.props[key])]]

\* JSON.parse(raw): Thrown for a text that is not valid JSON
JSONparse(raw) == IF raw.valid THEN ParseNode(raw.doc) ELSE Leaf(Thrown)

\* n[key] for n neither null nor undefined
Get(n, key) ==
  IF n.v.k = "obj" /\ key \in DOMAIN n.props THEN n.props[key] ELSE JUndefined

\* n?.[key]
OptGet(n, key) ==
  IF n.v.k \in {"null", "undef"} THEN JUndefined ELSE Get(n, key)

\* n.key: throws a TypeError when n is null or undefined
StrictGet(n, key) ==
  IF n.v.k \in {"null", "undef"} THEN Leaf(Thrown) ELSE Get(n, key)

(***************************************************************************)
(* The metric definitions.                                                 *)
(***************************************************************************)
\* CATEGORIES with the row labelled Performance read from another category
CATEGORIESOtherKey ==
  << [key |-> "accessibility", label |-> "Performance", unit |-> "",
      isCategory |-> TRUE],
     [key |-> "accessibility", label |-> "Accessibility", unit |-> "",
      isCategory |-> TRUE],
     [key |-> "best-practices", label |-> "Best Practices", unit |-> "",
      isCategory |-> TRUE] >>

CATEGORIES ==
  << [key |-> "performance", label |-> "Performance", unit |-> "",
      isCategory |-> TRUE],
     [key |-> "accessibility", label |-> "Accessibility", unit |-> "",
      isCategory |-> TRUE],
     [key |-> "best-practices", label |-> "Best Practices", unit |-> "",
      isCategory |-> TRUE] >>

METRICS ==
  << [key |-> "first-contentful-paint", label |-> "FCP", unit |-> "ms",
      isCategory |-> FALSE],
     [key |-> "largest-contentful-paint", label |-> "LCP", unit |-> "ms",
      isCategory |-> FALSE],
     [key |-> "speed-index", label |-> "Speed Index", unit |-> "ms",
      isCategory |-> FALSE],
     [key |-> "total-blocking-time", label |-> "TBT", unit |-> "ms",
      isCategory |-> FALSE],
     [key |-> "interactive", label |-> "TTI", unit |-> "ms",
      isCategory |-> FALSE],
     [key |-> "cumulative-layout-shift", label |-> "CLS", unit |-> "",
      isCategory |-> FALSE] >>

(***************************************************************************)
(* The pure functions of the comparator.                                   *)
(***************************************************************************)
\* getValue(report, key, isCategory); Thrown when report is null
getValue(report, key, isCategory) ==
  IF isCategory
    THEN LET cats == StrictGet(report, "categories")
             score == OptGet(OptGet(cats, key), "score").v
         IN  IF cats.v = Thrown THEN Thrown
             ELSE IF IsNumber(score) THEN FMul(score, FromInt(100)) ELSE null
    ELSE LET auds == StrictGet(report, "audits")
             value == OptGet(OptGet(auds, key), "numericValue").v
         IN  IF auds.v = Thrown THEN Thrown
             ELSE IF IsNumber(value) THEN value ELSE null

RECURSIVE SumFrom(_, _, _)
\* values.reduce((sum, value) => sum + value, acc) from index i on
SumFrom(values, i, acc) ==
  IF i > Len(values) THEN acc
  ELSE SumFrom(values, i + 1, FAdd(acc, values[i]))

\* avg dividing by the length of the whole array, null entries included
avgCountAll(values) ==
  LET valid == SelectSeq(values, IsNumber)
  IN  IF Len(valid) = 0 THEN null
      ELSE FDiv(SumFrom(valid, 1, Zero), FromInt(Len(values)))

\* avg yielding 0 instead of null when no entry is a number
avgZeroWhenEmpty(values) ==
  LET valid == SelectSeq(values, IsNumber)
  IN  IF Len(valid) = 0 THEN Zero
      ELSE FDiv(SumFrom(valid, 1, Zero), FromInt(Len(valid)))

\* avg(values)
avg(values) ==
  LET valid == SelectSeq(values, IsNumber)
  IN  IF Len(valid) = 0 THEN null
      ELSE FDiv(SumFrom(valid, 1, Zero), FromInt(Len(valid)))

\* fmtValue(value, unit)
fmtValue(value, unit) ==
  IF value = null THEN "N/A"
  ELSE IF unit = "ms"
    THEN (IF FGe(value, FromInt(1000))
            THEN toFixed(FDiv(value, FromInt(1000)), 2) \o "s"
            ELSE toFixed(value, 0) \o "ms")
  ELSE IF unit = "" THEN toFixed(value, 3)
  ELSE toFixed(value, 2) \o unit

\* getDelta(before, after, higherIsBetter)
getDelta(before, after, higherIsBetter) ==
  IF before = null \/ after = null THEN [text |-> "N/A", cls |-> "neutral"]
  ELSE LET delta == FSub(after, before)
           cls == IF FGe(delta, Zero) = higherIsBetter THEN "good" ELSE "bad"
           sign == IF FGe(delta, Zero) THEN "+" ELSE ""
       IN  [text |-> sign \o toFixed(delta, 2), cls |-> cls]

\* perRunScores(reports, categoryKey)
perRunScores(reports, categoryKey) ==
  LET values == [i \in 1..Len(reports) |->
                   getValue(reports[i].report, categoryKey, TRUE)]
      kept == SelectSeq(values, LAMBDA v : v # null)
  IN  [i \in 1..Len(kept) |-> NumberOfFixed(kept[i], 2)]

\* one bar of BarChart: the tooltip and the height in percent of the entry of
\* data at a position from 1, or "N/A" and "0%" when data has no such entry
Bar(data, index) ==
  IF index <= Len(data)
    THEN [tip |-> toFixed(data[index], 1),
          height |-> FMul(FDiv(data[index], FromInt(100)), FromInt(100))]
    ELSE [tip |-> "N/A", height |-> Zero]

\* BarChart with the bar groups of the shorter of the two sequences only
BarChartOfShorter(beforeData, afterData) ==
  LET minLength == IF Len(beforeData) <= Len(afterData) THEN Len(beforeData)
                   ELSE Len(afterData)
  IN  [index \in 1..minLength |->
         [label |-> index,
          before |-> Bar(beforeData, index),
          after |-> Bar(afterData, index)]]

\* BarChart({ beforeData, afterData }): the bar groups it renders, each with
\* its label and its two bars
BarChart(beforeData, afterData) ==
  LET maxLength == IF Len(beforeData) >= Len(afterData) THEN Len(beforeData)
                   ELSE Len(afterData)
  IN  [index \in 1..maxLength |->
         [label |-> index,
          before |-> Bar(beforeData, index),
          after |-> Bar(afterData, index)]]

\* the row buildRows makes for one metric definition
buildRow(before, after, entry) ==
  LET beforeAvg == avg([i \in 1..Len(before) |->
                     getValue(before[i].report, entry.key, entry.isCategory)])
      afterAvg == avg([i \in 1..Len(after) |->
                     getValue(after[i].report, entry.key, entry.isCategory)])
      delta == getDelta(beforeAvg, afterAvg, entry.isCategory)
  IN  [label |-> entry.label,
       before |-> beforeAvg,
       after |-> afterAvg,
       deltaText |-> delta.text,
       deltaClass |-> delta.cls,
       beforeText |-> IF entry.isCategory
                        THEN (IF beforeAvg = null THEN "N/A"
                              ELSE toFixed(beforeAvg, 1))
                        ELSE fmtValue(beforeAvg, entry.unit),
       afterText |-> IF entry.isCategory
                       THEN (IF afterAvg = null THEN "N/A"
                             ELSE toFixed(afterAvg, 1))
                       ELSE fmtValue(afterAvg, entry.unit)]

\* buildRows(before, after, entries), when no getValue call throws
buildRows(before, after, entries) ==
  [i \in 1..Len(entries) |-> buildRow(before, after, entries[i])]

\* whether some getValue call made for these reports and entries throws
getValueThrows(reports, entries) ==
  \E i \in 1..Len(reports), j \in 1..Len(entries) :
    getValue(reports[i].report, entries[j].key, entries[j].isCategory) = Thrown

\* whether buildRows(before, after, entries) throws
buildRowsThrows(before, after, entries) ==
  getValueThrows(before, entries) \/ getValueThrows(after, entries)

\* whether perRunScores(reports, categoryKey) throws
perRunScoresThrows(reports, categoryKey) ==
  \E i \in 1..Len(reports) :
    getValue(reports[i].report, categoryKey, TRUE) = Thrown


\* buildComparison(beforeDesktop, afterDesktop, beforeMobile, afterMobile),
\* when no getValue call throws
buildComparison(beforeDesktop, afterDesktop, beforeMobile, afterMobile) ==
  LET perf(reports) ==
        avg([i \in 1..Len(reports) |->
               getValue(reports[i].report, "performance", TRUE)])
      dBefore == perf(beforeDesktop)
      dAfter == perf(afterDesktop)
      mBefore == perf(beforeMobile)
      mAfter == perf(afterMobile)
      dDelta == getDelta(dBefore, dAfter, TRUE)
      mDelta == getDelta(mBefore, mAfter, TRUE)
  IN  [desktopPerformance |->
         [before |-> dBefore, after |-> dAfter,
          deltaText |-> dDelta.text, deltaClass |-> dDelta.cls],
       mobilePerformance |->
         [before |-> mBefore, after |-> mAfter,
          deltaText |-> mDelta.text, deltaClass |-> mDelta.cls],
       categoriesDesktop |-> buildRows(beforeDesktop, afterDesktop, CATEGORIES),
       categoriesMobile |-> buildRows(beforeMobile, afterMobile, CATEGORIES),
       metricsDesktop |-> buildRows(beforeDesktop, afterDesktop, METRICS),
       metricsMobile |-> buildRows(beforeMobile, afterMobile, METRICS),
       desktopRuns |->
         [before |-> perRunScores(beforeDesktop, "performance"),
          after |-> perRunScores(afterDesktop, "performance")],
       mobileRuns |->
         [before |-> perRunScores(beforeMobile, "performance"),
          after |-> perRunScores(afterMobile, "performance")],
       counts |->
         [beforeDesktop |-> Len(beforeDesktop),
          afterDesktop |-> Len(afterDesktop),
          beforeMobile |-> Len(beforeMobile),
          afterMobile |-> Len(afterMobile)]]

\* whether buildComparison throws: its first statements are the buildRows
\* calls, which call getValue on every report of every list
buildComparisonThrows(beforeDesktop, afterDesktop, beforeMobile, afterMobile) ==
  \/ buildRowsThrows(beforeDesktop, afterDesktop, CATEGORIES)
  \/ buildRowsThrows(beforeMobile, afterMobile, CATEGORIES)
  \/ buildRowsThrows(beforeDesktop, afterDesktop, METRICS)
  \/ buildRowsThrows(beforeMobile, afterMobile, METRICS)

\* fmtCard(value)
fmtCard(value) == IF value = null THEN "N/A" ELSE toFixed(value, 1)

(***************************************************************************)
(* Inputs of the pure functions: bounded sets of numbers, JSON texts and   *)
(* report lists.                                                           *)
(***************************************************************************)
\* the smallest power of two whose successor is not a number of the format
Big == FromInt(Pow2(Precision))

\* sequences over S of length at most n
SeqsUpTo(S, n) == UNION {[1..l -> S] : l \in 0..n}

CatKeys == {CATEGORIES[i].key : i \in 1..Len(CATEGORIES)}
AudKeys == {METRICS[i].key : i \in 1..Len(METRICS)}

\* a property some tokens stand for: "noentry" is a key the mapping lacks
NoEntry == [k |-> "noentry", m |-> 0, e |-> 0]

\* the JSON text of a mapping {key: {field: toks[key]}}: a key whose token
\* is NoEntry is left out, one whose token is undefined has an entry without
\* the field
MappingText(toks, field) ==
  Obj([key \in {x \in DOMAIN toks : toks[x] # NoEntry} |->
         IF toks[key] = undefined THEN Obj(NoProps)
         ELSE Obj([f \in {field} |-> Leaf(toks[key])])])

\* the JSON text {"categories": ..., "audits": ...}
ReportText(cats, auds) ==
  Obj([p \in {"categories", "audits"} |->
         IF p = "categories" THEN MappingText(cats, "score")
         ELSE MappingText(auds, "numericValue")])

\* the tokens a score or a numericValue is drawn from
FieldTokens ==
  {NoEntry, undefined, null, NonNumber, Tok(1, 2), Tok(1, 1), Huge, NegHuge}

\* JSON texts of every shape getValue tells apart, at the keys
\* "performance" and "interactive"
ShapeTexts ==
  {ReportText([key \in CatKeys |->
                 IF key = "performance" THEN c ELSE NoEntry],
              [key \in AudKeys |->
                 IF key = "interactive" THEN a ELSE NoEntry]) :
     c \in FieldTokens, a \in FieldTokens}
  \cup {Leaf(null), Leaf(NonNumber), Leaf(Tok(5, 1)), Obj(NoProps),
        Obj([p \in {"categories", "audits"} |-> Leaf(null)]),
        Obj([p \in {"categories", "audits"} |-> Leaf(NonNumber)]),
        Obj([p \in {"categories", "audits"} |->
               Obj([key \in {"performance", "interactive"} |-> Leaf(null)])])}

TextA ==
  ReportText(
    [key \in CatKeys |->
       CASE key = "performance" -> Tok(1, 2)
         [] key = "accessibility" -> Tok(1, 1)
         [] OTHER -> NoEntry],
    [key \in AudKeys |->
       CASE key = "first-contentful-paint" -> Tok(999, 1)
         [] key = "largest-contentful-paint" -> Tok(1000, 1)
         [] key = "speed-index" -> Tok(1500, 1)
         [] key = "total-blocking-time" -> Tok(0, 1)
         [] key = "interactive" -> null
         [] OTHER -> Tok(1, 8)])

TextB ==
  ReportText(
    [key \in CatKeys |->
       CASE key = "performance" -> Tok(3, 4)
         [] key = "accessibility" -> Tok(1, 1)
         [] OTHER -> Tok(1, 2)],
    [key \in AudKeys |->
       CASE key = "first-contentful-paint" -> Tok(1000, 1)
         [] key = "largest-contentful-paint" -> Tok(1000, 1)
         [] key = "speed-index" -> Tok(500, 1)
         [] key = "total-blocking-time" -> Huge
         [] key = "interactive" -> Tok(5, 1)
         [] OTHER -> Tok(1, 4)])

TextC == Obj(NoProps)

TextD ==
  ReportText(
    [key \in CatKeys |->
       CASE key = "performance" -> Huge
         [] key = "accessibility" -> NegHuge
         [] OTHER -> null],
    [key \in AudKeys |->
       CASE key = "first-contentful-paint" -> NonNumber
         [] key = "largest-contentful-paint" -> Huge
         [] key = "speed-index" -> undefined
         [] key = "total-blocking-time" -> NegHuge
         [] key = "interactive" -> Tok(5, 1)
         [] OTHER -> NoEntry])

TextNull == Leaf(null)

\* the JSON texts report lists are made of, by file name
RowFiles == {"a.json", "b.json", "c.json", "d.json", "n.json"}

TextOf(name) ==
  CASE name = "a.json" -> TextA
    [] name = "b.json" -> TextB
    [] name = "c.json" -> TextC
    [] name = "d.json" -> TextD
    [] OTHER -> TextNull

\* JSON.parse of the text of every one of these files
parsedReport == [name \in RowFiles |-> ParseNode(TextOf(name))]

\* the parsed reports of a list of files, as parseFiles returns them
ReportsOf(names) ==
  [i \in 1..Len(names) |->
     [name |-> names[i], report |-> parsedReport[names[i]]]]

\* the values avg and getDelta are called with
AvgValues == {null, FromInt(1), FromInt(2), Big, Infinity, NegInfinity}

DeltaValues ==
  {null, Zero, FromInt(1), Lit(1, 2), FromInt(80), FromInt(95), Lit(-5, 2),
   Infinity, NegInfinity, NaN}

\* the values fmtValue is called with (averages of numericValue) and its
\* units
FmtValues ==
  {null, Zero, Lit(1, 2), FromInt(999), FromInt(1000), FromInt(1001),
   FromInt(1500), FromInt(-1000), Infinity, NegInfinity, NaN}

FmtUnits == {"ms", "", "%"}

(***************************************************************************)
(* Files.  A file name is a stem, a run of digits and an extension         *)
(* ("run-", 10, ".json" is run-10.json).                                   *)
(***************************************************************************)
NameText(name) == name.stem \o ToString(name.num) \o name.ext

\* the stems and extensions of the model's file names, in collation order
Stems == <<"lh-", "run-">>
Exts == <<"", ".json", ".txt">>

RankIn(order, x) == CHOOSE i \in 1..Len(order) : order[i] = x

\* -1, 0 or 1 as x is below, equal to or above y
Cmp(x, y) == IF x < y THEN -1 ELSE IF x = y THEN 0 ELSE 1

\* a.localeCompare(b, undefined, { numeric: true }): runs of digits are
\* compared by their value
localeCompare(a, b) ==
  IF a.stem # b.stem THEN Cmp(RankIn(Stems, a.stem), RankIn(Stems, b.stem))
  ELSE IF a.num # b.num THEN Cmp(a.num, b.num)
  ELSE Cmp(RankIn(Exts, a.ext), RankIn(Exts, b.ext))

\* the files of the model: name, size, lastModified, type and text.  Those
\* of FileIds are the ones compared; a dropzone is also given a second File
\* object of run-2.json ("run-2 again"), a run-2.json of another size, a
\* text file and a JSON-typed file whose name has no extension.
FileIds == {"run-2", "run-10", "run-3", "lh-1"}

File(id) ==
  CASE id = "run-2" ->
         [name |-> [stem |-> "run-", num |-> 2, ext |-> ".json"],
          size |-> 100, lastModified |-> 1, type |-> "application/json",
          raw |-> [valid |-> TRUE, doc |-> TextA]]
    [] id = "run-10" ->
         [name |-> [stem |-> "run-", num |-> 10, ext |-> ".json"],
          size |-> 100, lastModified |-> 2, type |-> "application/json",
          raw |-> [valid |-> TRUE, doc |-> TextB]]
    [] id = "run-3" ->
         [name |-> [stem |-> "run-", num |-> 3, ext |-> ".json"],
          size |-> 4, lastModified |-> 3, type |-> "",
          raw |-> [valid |-> TRUE, doc |-> TextNull]]
    [] id = "run-2 again" ->
         [name |-> [stem |-> "run-", num |-> 2, ext |-> ".json"],
          size |-> 100, lastModified |-> 1, type |-> "application/json",
          raw |-> [valid |-> TRUE, doc |-> TextA]]
    [] id = "run-2 resized" ->
         [name |-> [stem |-> "run-", num |-> 2, ext |-> ".json"],
          size |-> 101, lastModified |-> 1, type |-> "application/json",
          raw |-> [valid |-> TRUE, doc |-> TextB]]
    [] id = "run-4.txt" ->
         [name |-> [stem |-> "run-", num |-> 4, ext |-> ".txt"],
          size |-> 100, lastModified |-> 5, type |-> "text/plain",
          raw |-> [valid |-> TRUE, doc |-> TextA]]
    [] id = "run-5" ->
         [name |-> [stem |-> "run-", num |-> 5, ext |-> ""],
          size |-> 100, lastModified |-> 6, type |-> "application/json",
          raw |-> [valid |-> TRUE, doc |-> TextA]]
    [] OTHER ->
         [name |-> [stem |-> "lh-", num |-> 1, ext |-> ".json"],
          size |-> 7, lastModified |-> 4, type |-> "application/json",
          raw |-> [valid |-> FALSE, doc |-> TextNull]]

\* JSON.parse(await file.text()) of every file of the model
loadedReport ==
  [id \in FileIds |-> JSONparse(File(id).raw)]

\* isJsonFile(file)
isJsonFile(file) == file.type = "application/json" \/ file.name.ext = ".json"

\* fileKey(file)
fileKey(file) ==
  NameText(file.name) \o "-" \o ToString(file.size) \o "-"
    \o ToString(file.lastModified)

\* list with x put after the last element that does not sort above it
RECURSIVE InsertSorted(_, _)
InsertSorted(list, x) ==
  IF list = <<>> THEN <<x>>
  ELSE IF localeCompare(File(list[Len(list)]).name, File(x).name) <= 0
    THEN Append(list, x)
  ELSE Append(InsertSorted(SubSeq(list, 1, Len(list) - 1), x),
              list[Len(list)])

\* [...files].sort((a, b) => a.name.localeCompare(b.name, undefined,
\* { numeric: true })): Array.prototype.sort is stable
RECURSIVE sortByName(_)
sortByName(list) ==
  IF list = <<>> THEN <<>>
  ELSE InsertSorted(sortByName(SubSeq(list, 1, Len(list) - 1)),
                    list[Len(list)])

\* the loop of mergeFiles without seen.add(key)
RECURSIVE mergeLoopSeenOfCurrent(_, _, _, _)
mergeLoopSeenOfCurrent(next, seen, incoming, i) ==
  IF i > Len(incoming) THEN next
  ELSE LET file == File(incoming[i])
           key == fileKey(file)
       IN  IF isJsonFile(file) /\ key \notin seen
             THEN mergeLoopSeenOfCurrent(Append(next, incoming[i]), seen,
                                         incoming, i + 1)
             ELSE mergeLoopSeenOfCurrent(next, seen, incoming, i + 1)

\* the loop of mergeFiles over incoming from index i on
RECURSIVE mergeLoop(_, _, _, _)
mergeLoop(next, seen, incoming, i) ==
  IF i > Len(incoming) THEN next
  ELSE LET file == File(incoming[i])
           key == fileKey(file)
       IN  IF isJsonFile(file) /\ key \notin seen
             THEN mergeLoop(Append(next, incoming[i]), seen \cup {key},
                            incoming, i + 1)
             ELSE mergeLoop(next, seen, incoming, i + 1)

\* mergeFiles(current, incoming)
mergeFiles(current, incoming) ==
  sortByName(mergeLoop(current,
                       {fileKey(File(current[i])) : i \in 1..Len(current)},
                       incoming, 1))

(***************************************************************************)
(* The state.  call is the last call of a pure function, with its          *)
(* arguments and what it returned.                                         *)
(***************************************************************************)
VARIABLES
  call,
  \* Home's state (useState)
  beforeDesktopFiles, afterDesktopFiles, beforeMobileFiles, afterMobileFiles,
  loading, error, result, activePerformanceTab,
  \* the last handleCompare invocation: whether it still awaits its reads,
  \* the four lists parseFiles sorted, the reads under way, the values
  \* Promise.all holds so far, and whether a group was cleared or before and
  \* after were swapped since it was invoked
  attempt,
  \* how many file edits and comparisons the user has made
  edits, compares

fileVars ==
  <<beforeDesktopFiles, afterDesktopFiles, beforeMobileFiles, afterMobileFiles>>

homeVars ==
  <<fileVars, loading, error, result, activePerformanceTab, attempt, edits,
    compares>>

vars == <<call, homeVars>>

NoCall == [fn |-> "none"]

\* null, as the value of error and of result
NoError == "null"
NoResult == [set |-> FALSE, data |-> <<>>]
Result(data) == [set |-> TRUE, data |-> data]

ParseErrorMessage ==
  "Could not parse the JSON files. Please confirm all files are valid Lighthouse reports."

Groups == {"beforeDesktop", "afterDesktop", "beforeMobile", "afterMobile"}

\* the attempt before handleCompare was ever invoked
NoAttempt ==
  [active |-> FALSE,
   ordered |-> [g \in Groups |-> <<>>],
   reading |-> [g \in Groups |-> {}],
   loaded |-> [g \in Groups |-> <<>>],
   cleared |-> FALSE]

CallGetDelta ==
  /\ call = NoCall
  /\ UNCHANGED homeVars
  /\ \E before \in DeltaValues, after \in DeltaValues, hib \in BOOLEAN :
       call' = [fn |-> "getDelta", before |-> before, after |-> after,
                higherIsBetter |-> hib, ret |-> getDelta(before, after, hib)]

CallAvg ==
  /\ call = NoCall
  /\ UNCHANGED homeVars
  /\ \E values \in SeqsUpTo(AvgValues, MaxRuns) :
       call' = [fn |-> "avg", values |-> values, ret |-> avg(values)]

CallGetValue ==
  /\ call = NoCall
  /\ UNCHANGED homeVars
  /\ \E doc \in ShapeTexts, key \in CatKeys \cup AudKeys, isCat \in BOOLEAN :
       call' = [fn |-> "getValue", doc |-> doc, key |-> key,
                isCategory |-> isCat,
                ret |-> getValue(ParseNode(doc), key, isCat)]

CallBuildRows ==
  /\ call = NoCall
  /\ UNCHANGED homeVars
  /\ \E before \in SeqsUpTo(RowFiles, MaxRuns - 1),
        after \in SeqsUpTo(RowFiles, MaxRuns - 1),
        entries \in {"CATEGORIES", "METRICS"} :
       LET b == ReportsOf(before)
           a == ReportsOf(after)
           defs == IF entries = "CATEGORIES" THEN CATEGORIES ELSE METRICS
       IN  call' = [fn |-> "buildRows", before |-> before, after |-> after,
                    entries |-> entries,
                    threw |-> buildRowsThrows(b, a, defs),
                    ret |-> IF buildRowsThrows(b, a, defs) THEN <<>>
                            ELSE buildRows(b, a, defs)]

CallPerRunScores ==
  /\ call = NoCall
  /\ UNCHANGED homeVars
  /\ \E reports \in SeqsUpTo(RowFiles, MaxRuns) :
       LET r == ReportsOf(reports)
       IN  call' = [fn |-> "perRunScores", reports |-> reports,
                    threw |-> perRunScoresThrows(r, "performance"),
                    ret |-> IF perRunScoresThrows(r, "performance") THEN <<>>
                            ELSE perRunScores(r, "performance")]

\* the chart of a device: BarChart of the perRunScores of its two lists
CallBarChart ==
  /\ call = NoCall
  /\ UNCHANGED homeVars
  /\ \E before \in SeqsUpTo(RowFiles, MaxRuns - 1),
        after \in SeqsUpTo(RowFiles, MaxRuns - 2) :
       LET b == ReportsOf(before)
           a == ReportsOf(after)
       IN  /\ ~perRunScoresThrows(b, "performance")
           /\ ~perRunScoresThrows(a, "performance")
           /\ call' = [fn |-> "BarChart", before |-> before, after |-> after,
                       beforeData |-> perRunScores(b, "performance"),
                       afterData |-> perRunScores(a, "performance"),
                       ret |-> BarChart(perRunScores(b, "performance"),
                                        perRunScores(a, "performance"))]

\* buildComparison of two desktop lists, with the same two lists the other way
\* round as the mobile ones
CallBuildComparison ==
  /\ call = NoCall
  /\ UNCHANGED homeVars
  /\ \E before \in SeqsUpTo(RowFiles, MaxRuns - 2),
        after \in SeqsUpTo(RowFiles, MaxRuns - 1) :
       LET b == ReportsOf(before)
           a == ReportsOf(after)
       IN  /\ ~buildComparisonThrows(b, a, a, b)
           /\ call' = [fn |-> "buildComparison", before |-> before,
                       after |-> after, ret |-> buildComparison(b, a, a, b)]

CallFmtValue ==
  /\ call = NoCall
  /\ UNCHANGED homeVars
  /\ \E value \in FmtValues, unit \in FmtUnits :
       call' = [fn |-> "fmtValue", value |-> value, unit |-> unit,
                ret |-> fmtValue(value, unit)]

\* the values of useState(...) in Home, before any event
HomeInit ==
  /\ beforeDesktopFiles = <<>>
  /\ afterDesktopFiles = <<>>
  /\ beforeMobileFiles = <<>>
  /\ afterMobileFiles = <<>>
  /\ loading = FALSE
  /\ error = NoError
  /\ result = NoResult
  /\ activePerformanceTab = "desktop"
  /\ attempt = NoAttempt
  /\ edits = 0
  /\ compares = 0

FnInit == call = NoCall /\ HomeInit

FnNext ==
  \/ CallGetDelta
  \/ CallAvg
  \/ CallGetValue
  \/ CallBuildRows
  \/ CallPerRunScores
  \/ CallFmtValue
  \/ CallBarChart
  \/ CallBuildComparison

\* the pure functions applied to every input of the bounded sets
FnSpec == FnInit /\ [][FnNext]_vars



(***************************************************************************)
(* Home: the upload groups, the comparison and its asynchronous reads.     *)
(***************************************************************************)
\* the files state of an upload group
FilesOf(g) ==
  CASE g = "beforeDesktop" -> beforeDesktopFiles
    [] g = "afterDesktop" -> afterDesktopFiles
    [] g = "beforeMobile" -> beforeMobileFiles
    [] OTHER -> afterMobileFiles

\* the group's setter called with next (onChange of its FileDropzone)
SetFiles(g, next) ==
  /\ beforeDesktopFiles' = IF g = "beforeDesktop" THEN next
                           ELSE beforeDesktopFiles
  /\ afterDesktopFiles' = IF g = "afterDesktop" THEN next
                          ELSE afterDesktopFiles
  /\ beforeMobileFiles' = IF g = "beforeMobile" THEN next
                          ELSE beforeMobileFiles
  /\ afterMobileFiles' = IF g = "afterMobile" THEN next ELSE afterMobileFiles

hasDesktopPair == Len(beforeDesktopFiles) > 0 /\ Len(afterDesktopFiles) > 0

hasMobilePair == Len(beforeMobileFiles) > 0 /\ Len(afterMobileFiles) > 0

hasAnyFiles ==
  \/ Len(beforeDesktopFiles) > 0
  \/ Len(afterDesktopFiles) > 0
  \/ Len(beforeMobileFiles) > 0
  \/ Len(afterMobileFiles) > 0

\* canCompare true as soon as any group has a file
canCompareAnyFiles == hasAnyFiles

canCompare == hasDesktopPair \/ hasMobilePair

\* the Compare button disabled by canCompare alone
compareEnabledWhileLoading == canCompare

\* the Compare button is not disabled
compareEnabled == canCompare /\ ~loading

\* the files the user has at hand for a group: every file for the desktop
\* groups, one report for the mobile groups
PickIds(g) ==
  IF g \in {"beforeDesktop", "afterDesktop"} THEN FileIds ELSE {"run-2"}

\* what the file picker hands to addFiles: one file of those at hand
Picks(g) == {<<id>> : id \in PickIds(g)}

\* addFiles(incoming) of a group's FileDropzone, from the file or folder
\* picker
AddFiles(g, incoming) ==
  /\ edits < MaxEdits
  /\ edits' = edits + 1
  /\ SetFiles(g, mergeFiles(FilesOf(g), incoming))
  /\ UNCHANGED <<call, loading, error, result, activePerformanceTab, attempt,
                 compares>>

\* the Remove button of the file at index
RemoveFile(g, index) ==
  /\ edits < MaxEdits
  /\ index \in 1..Len(FilesOf(g))
  /\ edits' = edits + 1
  /\ SetFiles(g, [i \in 1..(Len(FilesOf(g)) - 1) |->
                    IF i < index THEN FilesOf(g)[i] ELSE FilesOf(g)[i + 1]])
  /\ UNCHANGED <<call, loading, error, result, activePerformanceTab, attempt,
                 compares>>

\* onClear of a group's FileDropzone
ClearGroup(g) ==
  /\ edits < MaxEdits
  /\ edits' = edits + 1
  /\ SetFiles(g, <<>>)
  /\ result' = NoResult
  /\ attempt' = [attempt EXCEPT !.cleared = TRUE]
  /\ UNCHANGED <<call, loading, error, activePerformanceTab, compares>>

\* clearAllFiles(), confirmed by the user
clearAllFiles ==
  /\ edits < MaxEdits
  /\ hasAnyFiles
  /\ edits' = edits + 1
  /\ beforeDesktopFiles' = <<>>
  /\ afterDesktopFiles' = <<>>
  /\ beforeMobileFiles' = <<>>
  /\ afterMobileFiles' = <<>>
  /\ result' = NoResult
  /\ error' = NoError
  /\ attempt' = [attempt EXCEPT !.cleared = TRUE]
  /\ UNCHANGED <<call, loading, activePerformanceTab, compares>>

\* swapBeforeAfterFiles()
swapBeforeAfterFiles ==
  /\ edits < MaxEdits
  /\ canCompare \/ hasAnyFiles
  /\ edits' = edits + 1
  /\ beforeDesktopFiles' = afterDesktopFiles
  /\ afterDesktopFiles' = beforeDesktopFiles
  /\ beforeMobileFiles' = afterMobileFiles
  /\ afterMobileFiles' = beforeMobileFiles
  /\ result' = NoResult
  /\ error' = NoError
  /\ attempt' = [attempt EXCEPT !.cleared = TRUE]
  /\ UNCHANGED <<call, loading, activePerformanceTab, compares>>

\* the result has a desktop (mobile) part to show
hasDesktopResult(data) ==
  data.counts.beforeDesktop > 0 /\ data.counts.afterDesktop > 0

hasMobileResult(data) ==
  data.counts.beforeMobile > 0 /\ data.counts.afterMobile > 0

\* a click on a tab of the per-run chart, shown when both parts exist
SetTab(tab) ==
  /\ result.set
  /\ hasDesktopResult(result.data) /\ hasMobileResult(result.data)
  /\ activePerformanceTab' = tab
  /\ UNCHANGED <<call, fileVars, loading, error, result, attempt, edits,
                 compares>>

\* what Home renders of a result: the headline card, the category and metric
\* tables of a device, the tabs and the per-run chart
desktopCardShown == result.set /\ hasDesktopResult(result.data)

mobileCardShown == result.set /\ hasMobileResult(result.data)

desktopTablesShown == result.set /\ hasDesktopResult(result.data)

mobileTablesShown == result.set /\ hasMobileResult(result.data)

tabsShown ==
  result.set /\ hasDesktopResult(result.data) /\ hasMobileResult(result.data)

\* the chart chosen without regard to the active tab
chartShownDesktopFirst ==
  IF ~result.set THEN "none"
  ELSE IF hasDesktopResult(result.data) THEN "desktop"
  ELSE IF hasMobileResult(result.data) THEN "mobile"
  ELSE "none"

\* the device of the BarChart rendered, "none" without a chart
chartShown ==
  IF ~result.set THEN "none"
  ELSE IF \/ hasDesktopResult(result.data) /\ activePerformanceTab = "desktop"
          \/ hasDesktopResult(result.data) /\ ~hasMobileResult(result.data)
    THEN "desktop"
  ELSE IF hasMobileResult(result.data) THEN "mobile"
  ELSE "none"

\* handleCompare() up to its await, without setError(null)
handleCompareKeepingError ==
  /\ compareEnabled
  /\ compares < MaxCompares
  /\ compares' = compares + 1
  /\ loading' = TRUE
  /\ attempt' =
       [active |-> TRUE,
        ordered |-> [g \in Groups |-> sortByName(FilesOf(g))],
        reading |-> [g \in Groups |-> 1..Len(FilesOf(g))],
        loaded |-> [g \in Groups |-> [i \in 1..Len(FilesOf(g)) |-> ""]],
        cleared |-> FALSE]
  /\ UNCHANGED <<call, fileVars, error, result, activePerformanceTab, edits>>

\* handleCompare() up to its await: the button is enabled, the four lists
\* of this render are sorted by parseFiles and every file's read is started
handleCompare ==
  /\ compareEnabled
  /\ compares < MaxCompares
  /\ compares' = compares + 1
  /\ loading' = TRUE
  /\ error' = NoError
  /\ attempt' =
       [active |-> TRUE,
        ordered |-> [g \in Groups |-> sortByName(FilesOf(g))],
        reading |-> [g \in Groups |-> 1..Len(FilesOf(g))],
        loaded |-> [g \in Groups |-> [i \in 1..Len(FilesOf(g)) |-> ""]],
        cleared |-> FALSE]
  /\ UNCHANGED <<call, fileVars, result, activePerformanceTab, edits>>

\* Promise.all keeping values in the order their promises settle
settleInCompletionOrder(slots, i, value) ==
  [slots EXCEPT
     ![CHOOSE j \in 1..Len(slots) :
         slots[j] = "" /\ \A h \in 1..(j - 1) : slots[h] # ""] = value]

\* Promise.all keeping the value of the promise at index i
settle(slots, i, value) == [slots EXCEPT ![i] = value]

\* the attempt once handleCompare has returned: nothing is awaited
Finished ==
  [NoAttempt EXCEPT !.ordered = attempt.ordered, !.cleared = attempt.cleared]

\* the catch block without setResult(null)
CompareFailedKeepingResult ==
  /\ error' = ParseErrorMessage
  /\ loading' = FALSE
  /\ attempt' = Finished
  /\ UNCHANGED <<call, fileVars, result, activePerformanceTab, edits,
                 compares>>

\* the catch and finally blocks of handleCompare
CompareFailed ==
  /\ result' = NoResult
  /\ error' = ParseErrorMessage
  /\ loading' = FALSE
  /\ attempt' = Finished
  /\ UNCHANGED <<call, fileVars, activePerformanceTab, edits, compares>>

\* what parseFiles resolved to for a group: { name, report } per slot
LoadedReports(slots) ==
  [i \in 1..Len(slots) |->
     [name |-> NameText(File(slots[i]).name),
      report |-> loadedReport[slots[i]]]]

\* the lists of distinct files of S whose text is valid JSON, in any order
ReadableLists(S) ==
  {t \in SeqsUpTo({id \in S : File(id).raw.valid}, Cardinality(S)) :
     \A i, j \in 1..Len(t) : t[i] = t[j] => i = j}

\* the four lists the reads of an attempt can load
LoadableLists ==
  {[g \in Groups |->
      CASE g = "beforeDesktop" -> bd
        [] g = "afterDesktop" -> ad
        [] g = "beforeMobile" -> bm
        [] OTHER -> am] :
     bd \in ReadableLists(PickIds("beforeDesktop")),
     ad \in ReadableLists(PickIds("afterDesktop")),
     bm \in ReadableLists(PickIds("beforeMobile")),
     am \in ReadableLists(PickIds("afterMobile"))}

\* buildComparison applied to the reports of every four loaded lists, computed
\* once: threw tells whether it throws, data is what it returns
comparisons ==
  {LET beforeDesktop == LoadedReports(loaded["beforeDesktop"])
       afterDesktop == LoadedReports(loaded["afterDesktop"])
       beforeMobile == LoadedReports(loaded["beforeMobile"])
       afterMobile == LoadedReports(loaded["afterMobile"])
   IN  IF buildComparisonThrows(beforeDesktop, afterDesktop, beforeMobile,
                                afterMobile)
         THEN [loaded |-> loaded, threw |-> TRUE, data |-> <<>>]
         ELSE [loaded |-> loaded, threw |-> FALSE,
               data |-> buildComparison(beforeDesktop, afterDesktop,
                                        beforeMobile, afterMobile)] :
     loaded \in LoadableLists}

comparisonOf(loaded) == CHOOSE c \in comparisons : c.loaded = loaded

\* handleCompare() after its await, comparing the files selected by then
\* instead of the lists it loaded
CompareLoadedCurrentFiles(loaded) ==
  LET current == [g \in Groups |-> sortByName(FilesOf(g))]
  IN  IF \/ \E g \in Groups : \E i \in 1..Len(current[g]) :
               loadedReport[current[g][i]].v = Thrown
         \/ comparisonOf(current).threw
        THEN CompareFailed
        ELSE /\ result' = Result(comparisonOf(current).data)
             /\ loading' = FALSE
             /\ attempt' = Finished
             /\ UNCHANGED <<call, fileVars, error, activePerformanceTab,
                            edits, compares>>

\* handleCompare() after its await, keeping a result already shown
CompareLoadedKeepingEarlier(loaded) ==
  IF comparisonOf(loaded).threw
    THEN CompareFailed
    ELSE /\ result' = IF result.set THEN result
                                    ELSE Result(comparisonOf(loaded).data)
         /\ loading' = FALSE
         /\ attempt' = Finished
         /\ UNCHANGED <<call, fileVars, error, activePerformanceTab, edits,
                        compares>>

\* handleCompare() after its await, with the four loaded lists
CompareLoaded(loaded) ==
  IF comparisonOf(loaded).threw
    THEN CompareFailed
    ELSE LET nextResult == comparisonOf(loaded).data
         IN  /\ result' = Result(nextResult)
             /\ activePerformanceTab' =
                  IF hasDesktopResult(nextResult)
                       /\ ~hasMobileResult(nextResult) THEN "desktop"
                  ELSE IF ~hasDesktopResult(nextResult)
                            /\ hasMobileResult(nextResult) THEN "mobile"
                  ELSE activePerformanceTab
             /\ loading' = FALSE
             /\ attempt' = Finished
             /\ UNCHANGED <<call, fileVars, error, edits, compares>>

\* a read completes, and a text that is not JSON makes the attempt read all
\* its files again instead of ending
ReadDoneRetrying(g, i) ==
  /\ attempt.active
  /\ i \in attempt.reading[g]
  /\ LET loaded == [attempt.loaded EXCEPT
                      ![g] = settle(attempt.loaded[g], i, attempt.ordered[g][i])]
         reading == [attempt.reading EXCEPT ![g] = @ \ {i}]
     IN  IF loadedReport[attempt.ordered[g][i]].v = Thrown
           THEN /\ attempt' =
                     [attempt EXCEPT
                        !.reading = [h \in Groups |->
                                       1..Len(attempt.ordered[h])],
                        !.loaded = [h \in Groups |->
                                      [j \in 1..Len(attempt.ordered[h]) |->
                                         ""]]]
                /\ UNCHANGED <<call, fileVars, loading, error, result,
                               activePerformanceTab, edits, compares>>
         ELSE IF \A h \in Groups : reading[h] = {} THEN CompareLoaded(loaded)
         ELSE /\ attempt' = [attempt EXCEPT !.loaded = loaded,
                                            !.reading = reading]
              /\ UNCHANGED <<call, fileVars, loading, error, result,
                             activePerformanceTab, edits, compares>>

\* the read of the file at index i of a group's sorted list completes
\* (file.text() resolves) and its text is parsed; reads complete in any
\* order.  A text that is not JSON rejects Promise.all at once, and the reads
\* still under way no longer matter; the last read to complete resolves it.
ReadDone(g, i) ==
  /\ attempt.active
  /\ i \in attempt.reading[g]
  /\ LET loaded == [attempt.loaded EXCEPT
                      ![g] = settle(attempt.loaded[g], i, attempt.ordered[g][i])]
         reading == [attempt.reading EXCEPT ![g] = @ \ {i}]
     IN  IF loadedReport[attempt.ordered[g][i]].v = Thrown THEN CompareFailed
         ELSE IF \A h \in Groups : reading[h] = {} THEN CompareLoaded(loaded)
         ELSE /\ attempt' = [attempt EXCEPT !.loaded = loaded,
                                            !.reading = reading]
              /\ UNCHANGED <<call, fileVars, loading, error, result,
                             activePerformanceTab, edits, compares>>

Init == call = NoCall /\ HomeInit

Next ==
  \/ \E g \in Groups : \E incoming \in Picks(g) : AddFiles(g, incoming)
  \/ \E g \in Groups, index \in 1..MaxEdits : RemoveFile(g, index)
  \/ \E g \in Groups : ClearGroup(g)
  \/ clearAllFiles
  \/ swapBeforeAfterFiles
  \/ \E tab \in {"desktop", "mobile"} : SetTab(tab)
  \/ handleCompare
  \/ \E g \in Groups, i \in 1..MaxEdits : ReadDone(g, i)

Spec == Init /\ [][Next]_vars

(***************************************************************************)
(* Two overlapping invocations of handleCompare.  The Compare button is    *)
(* disabled while loading, so Home itself never starts a second invocation *)
(* before the first has returned; here handleCompare is invoked a second   *)
(* time while the first awaits its reads, and call holds that second       *)
(* invocation: its sorted lists, its reads under way, the values loaded,   *)
(* and whether it returned after the first (endedLast).                    *)
(***************************************************************************)
\* handleCompare() invoked again, up to its await, while the first invocation
\* awaits its reads
handleCompareAgain ==
  /\ attempt.active /\ call = NoCall
  /\ loading' = TRUE
  /\ error' = NoError
  /\ call' =
       [fn |-> "handleCompare", active |-> TRUE, endedLast |-> FALSE,
        ordered |-> [g \in Groups |-> sortByName(FilesOf(g))],
        reading |-> [g \in Groups |-> 1..Len(FilesOf(g))],
        loaded |-> [g \in Groups |-> [i \in 1..Len(FilesOf(g)) |-> ""]]]
  /\ UNCHANGED <<fileVars, result, activePerformanceTab, attempt, edits,
                 compares>>

\* the second invocation once it has returned
FinishedAgain ==
  [call EXCEPT !.active = FALSE, !.endedLast = ~attempt.active,
               !.reading = [g \in Groups |-> {}],
               !.loaded = [g \in Groups |-> <<>>]]

\* invocation n of the two: the first is attempt, the second is call
Invocation(n) == IF n = 1 THEN attempt ELSE call

\* invocation n returns: nothing of it is awaited any more
Return(n) ==
  IF n = 1 THEN attempt' = Finished /\ call' = call
           ELSE call' = FinishedAgain /\ attempt' = attempt

\* the catch block of invocation n without setResult(null)
InvocationFailedKeepingResult(n) ==
  /\ error' = ParseErrorMessage
  /\ loading' = FALSE
  /\ Return(n)
  /\ UNCHANGED <<fileVars, result, activePerformanceTab, edits, compares>>

\* the catch and finally blocks of invocation n
InvocationFailed(n) ==
  /\ result' = NoResult
  /\ error' = ParseErrorMessage
  /\ loading' = FALSE
  /\ Return(n)
  /\ UNCHANGED <<fileVars, activePerformanceTab, edits, compares>>

\* invocation n after its await, with the four loaded lists
InvocationLoaded(n, loaded) ==
  IF comparisonOf(loaded).threw
    THEN InvocationFailed(n)
    ELSE LET nextResult == comparisonOf(loaded).data
         IN  /\ result' = Result(nextResult)
             /\ activePerformanceTab' =
                  IF hasDesktopResult(nextResult)
                       /\ ~hasMobileResult(nextResult) THEN "desktop"
                  ELSE IF ~hasDesktopResult(nextResult)
                            /\ hasMobileResult(nextResult) THEN "mobile"
                  ELSE activePerformanceTab
             /\ loading' = FALSE
             /\ Return(n)
             /\ UNCHANGED <<fileVars, error, edits, compares>>

\* a read of invocation n completes
InvocationReadDone(n, g, i) ==
  /\ \/ n = 1 /\ attempt.active
     \/ n = 2 /\ call # NoCall /\ call.active
  /\ i \in Invocation(n).reading[g]
  /\ LET inv == Invocation(n)
         loaded == [inv.loaded EXCEPT
                      ![g] = settle(inv.loaded[g], i, inv.ordered[g][i])]
         reading == [inv.reading EXCEPT ![g] = @ \ {i}]
     IN  IF loadedReport[inv.ordered[g][i]].v = Thrown THEN InvocationFailed(n)
         ELSE IF \A h \in Groups : reading[h] = {}
           THEN InvocationLoaded(n, loaded)
         ELSE /\ IF n = 1
                   THEN /\ attempt' = [attempt EXCEPT !.loaded = loaded,
                                                      !.reading = reading]
                        /\ call' = call
                   ELSE /\ call' = [call EXCEPT !.loaded = loaded,
                                                !.reading = reading]
                        /\ attempt' = attempt
              /\ UNCHANGED <<fileVars, loading, error, result,
                             activePerformanceTab, edits, compares>>

OverlapNext ==
  \/ \E g \in {"beforeDesktop", "afterDesktop"} : \E incoming \in Picks(g) :
       call = NoCall /\ AddFiles(g, incoming)
  \/ call = NoCall /\ handleCompare
  \/ handleCompareAgain
  \/ \E n \in 1..2, g \in Groups, i \in 1..MaxEdits :
       call # NoCall /\ InvocationReadDone(n, g, i)

\* Home with one more invocation of handleCompare during the first: files
\* are added to the desktop groups, the first invocation starts, files may be
\* added again, the second starts, and the reads of both complete in any order
OverlapSpec == Init /\ [][OverlapNext]_vars

(***************************************************************************)
(* One FileDropzone.  Its file input and its folder input call addFiles at *)
(* once; a drop collects its files asynchronously and then calls the       *)
(* addFiles of the render in which the drop happened, whose files are the  *)
(* list of that moment.  call holds the drop that is collecting.           *)
(***************************************************************************)
DropIds ==
  {"run-2", "run-10", "run-2 again", "run-2 resized", "run-4.txt", "run-5"}

\* what one selection or one drop can hold
DropPicks ==
  {<<id>> : id \in DropIds}
    \cup {<<"run-2", "run-2 again">>, <<"run-2 resized", "run-2">>,
           <<"run-4.txt", "run-10">>}

\* collectDroppedJsonFiles(dataTransfer): the dropped files that are JSON
collectDroppedJsonFiles(dropped) ==
  SelectSeq(dropped, LAMBDA id : isJsonFile(File(id)))

\* onDrop up to its await
DropStart(g, dropped) ==
  /\ call = NoCall
  /\ edits < MaxEdits
  /\ call' = [fn |-> "onDrop", group |-> g, files |-> FilesOf(g),
              dropped |-> dropped]
  /\ UNCHANGED homeVars

\* onDrop after its await: addFiles(droppedFiles)
DropDone ==
  /\ call # NoCall /\ call.fn = "onDrop"
  /\ edits' = edits + 1
  /\ SetFiles(call.group,
              mergeFiles(call.files, collectDroppedJsonFiles(call.dropped)))
  /\ call' = NoCall
  /\ UNCHANGED <<loading, error, result, activePerformanceTab, attempt,
                 compares>>

DropNext ==
  \/ \E incoming \in DropPicks : AddFiles("beforeDesktop", incoming)
  \/ \E index \in 1..MaxEdits : RemoveFile("beforeDesktop", index)
  \/ ClearGroup("beforeDesktop")
  \/ \E dropped \in DropPicks : DropStart("beforeDesktop", dropped)
  \/ DropDone

\* the Before Desktop dropzone alone
DropSpec == Init /\ [][DropNext]_vars


(***************************************************************************)
(* Properties of the pure functions, checked under FnSpec.                 *)
(***************************************************************************)
\* the permutations of a sequence
Perms(s) ==
  {[i \in 1..Len(s) |-> s[f[i]]] :
     f \in {g \in [1..Len(s) -> 1..Len(s)] :
              \A i, j \in 1..Len(s) : g[i] = g[j] => i = j}}

\* the field of a parsed report a metric definition names, read from the
\* document itself: undefined when the report, the mapping, the key or the
\* field is missing
FieldOf(report, key, isCategory) ==
  LET mapping == IF isCategory THEN "categories" ELSE "audits"
      field == IF isCategory THEN "score" ELSE "numericValue"
  IN  IF report.v.k # "obj" \/ mapping \notin DOMAIN report.props
        THEN undefined
      ELSE IF report.props[mapping].v.k # "obj"
              \/ key \notin DOMAIN report.props[mapping].props
        THEN undefined
      ELSE IF report.props[mapping].props[key].v.k # "obj"
              \/ field \notin DOMAIN report.props[mapping].props[key].props
        THEN undefined
      ELSE report.props[mapping].props[key].props[field].v

\* no report of the list has a number in the field the definition names
NoneNumeric(reports, entry) ==
  \A i \in 1..Len(reports) :
    ~IsNumber(FieldOf(reports[i].report, entry.key, entry.isCategory))

IsGetDelta == call.fn = "getDelta"
IsAvg == call.fn = "avg"
IsGetValue == call.fn = "getValue"
IsBuildRows == call.fn = "buildRows" /\ ~call.threw
\* the metric definitions of the buildRows call
CallEntries == IF call.entries = "CATEGORIES" THEN CATEGORIES ELSE METRICS
IsPerRunScores == call.fn = "perRunScores" /\ ~call.threw

\* C1: getDelta of two equal non-null numbers, a delta of exactly 0, returns
\* "+0.00" and "good" whatever higherIsBetter is.
C1_ZeroDeltaAlwaysGood ==
  (IsGetDelta /\ call.before # null /\ call.after # null
     /\ FSub(call.after, call.before) = Zero)
  => call.ret = [text |-> "+0.00", cls |-> "good"]

\* C2: buildRows of one report list as both before and after
\* yields "+0.00" and "good" in every row of CATEGORIES and of METRICS whose
\* average is a finite number.
C2_SameListsAllGood ==
  (IsBuildRows /\ call.before = call.after)
  => \A i \in 1..Len(call.ret) :
       IsFinite(call.ret[i].before)
         => call.ret[i].deltaText = "+0.00" /\ call.ret[i].deltaClass = "good"

\* C3: in a row whose two averages are non-null and different, the class is
\* "good" exactly when after > before (category) or after < before (metric),
\* "bad" otherwise, and never "neutral".
C3_Directionality ==
  IsBuildRows
  => \A i \in 1..Len(call.ret) :
       LET row == call.ret[i]
           isCat == CallEntries[i].isCategory
           better == IF isCat THEN FLt(row.before, row.after)
                     ELSE FLt(row.after, row.before)
       IN  (row.before # null /\ row.after # null
              /\ ~FEq(row.before, row.after))
           => row.deltaClass = IF better THEN "good" ELSE "bad"

\* C4: a side of a row on which no report has a number has a null average
\* shown as "N/A", and the row's delta is "N/A" / "neutral" whatever the
\* other side is; getDelta returns "N/A" / "neutral" exactly when one of its
\* two inputs is null.
C4_MissingIsNeutral ==
  /\ IsBuildRows
     => \A i \in 1..Len(call.ret) :
          LET row == call.ret[i]
              entry == CallEntries[i]
          IN  /\ NoneNumeric(ReportsOf(call.before), entry)
                   => /\ row.before = null /\ row.beforeText = "N/A"
                      /\ row.deltaText = "N/A" /\ row.deltaClass = "neutral"
              /\ NoneNumeric(ReportsOf(call.after), entry)
                   => /\ row.after = null /\ row.afterText = "N/A"
                      /\ row.deltaText = "N/A" /\ row.deltaClass = "neutral"
  /\ IsGetDelta
     => /\ (call.before = null \/ call.after = null)
             <=> call.ret = [text |-> "N/A", cls |-> "neutral"]
        /\ (call.before = null \/ call.after = null)
             <=> (call.ret.text = "N/A" \/ call.ret.cls = "neutral")

\* C4 witness: the before list is empty, the after list has a number, and
\* the row is "N/A" / "neutral"
C4_Witness ==
  /\ IsBuildRows
  /\ call.before = <<>> /\ call.after = <<"a.json">>
  /\ call.entries = "CATEGORIES"
  /\ call.ret[1].after = FromInt(50) /\ call.ret[1].afterText = "50.0"
  /\ call.ret[1].before = null /\ call.ret[1].beforeText = "N/A"
  /\ call.ret[1].deltaText = "N/A" /\ call.ret[1].deltaClass = "neutral"

\* the numeric entries of a sequence, in their order
RECURSIVE Numbers(_)
Numbers(values) ==
  IF values = <<>> THEN <<>>
  ELSE IF Head(values).k \in {"num", "inf", "nan"}
    THEN <<Head(values)>> \o Numbers(Tail(values))
  ELSE Numbers(Tail(values))

\* the exact sum of a sequence of integers held as numbers
RECURSIVE IntSum(_)
IntSum(nums) ==
  IF nums = <<>> THEN 0
  ELSE Head(nums).m * Pow2(Head(nums).e) + IntSum(Tail(nums))

\* every entry is a non-negative integer and their sum is below 2^Precision,
\* so that no addition of theirs, in any order, rounds
SumsExactly(nums) ==
  /\ \A i \in 1..Len(nums) :
       nums[i].k = "num" /\ nums[i].m >= 0 /\ nums[i].e >= 0
  /\ IntSum(nums) < Pow2(Precision)

\* C5 (as stated): avg is null without a numeric entry, else the mean of
\* exactly the numeric entries, and the same for every permutation.
C5_AvgPermutationInvariant ==
  IsAvg
  => LET nums == Numbers(call.values)
     IN  /\ nums = <<>> <=> call.ret = null
         /\ nums # <<>>
              => call.ret = FDiv(SumFrom(nums, 1, Zero), FromInt(Len(nums)))
         /\ \A p \in Perms(call.values) : avg(p) = call.ret

\* C5 (amended): avg is null without a numeric entry; otherwise it is the
\* sum of exactly the numeric entries, added from left to right in
\* floating-point arithmetic, divided by their count.  Null entries count
\* neither as zero nor in the divisor, and where they stand does not matter:
\* every permutation that keeps the numeric entries in their order gives the
\* same result.  A permutation of the numeric entries gives the same result
\* whenever no addition rounds (non-negative integers with a sum below
\* 2^Precision), where the result is the correctly rounded exact mean.
C5_Avg ==
  IsAvg
  => LET nums == Numbers(call.values)
     IN  /\ nums = <<>> <=> call.ret = null
         /\ nums # <<>>
              => call.ret = FDiv(SumFrom(nums, 1, Zero), FromInt(Len(nums)))
         /\ \A p \in Perms(call.values) :
              Numbers(p) = nums => avg(p) = call.ret
         /\ (nums # <<>> /\ SumsExactly(nums))
              => /\ call.ret = FRound(IntSum(nums), Len(nums), 0)
                 /\ \A p \in Perms(call.values) : avg(p) = call.ret

\* C5 witness: a null entry among numbers is left out of sum and divisor
C5_Witness ==
  /\ IsAvg
  /\ call.values = <<FromInt(1), null, FromInt(2)>>
  /\ call.ret = Lit(3, 2)

\* C6: getValue of a report returns score * 100, or the numericValue, only
\* when that field is a finite number, and null in every other case.
C6_FiniteOnly ==
  (IsGetValue /\ call.doc.v.k = "obj")
  => LET field == FieldOf(ParseNode(call.doc), call.key, call.isCategory)
     IN  call.ret = IF IsFinite(field)
                      THEN (IF call.isCategory
                              THEN FMul(field, FromInt(100)) ELSE field)
                      ELSE null

\* the reports of a list that expose a finite performance score
RECURSIVE FiniteScores(_)
FiniteScores(reports) ==
  IF reports = <<>> THEN <<>>
  ELSE LET score == FieldOf(Head(reports).report, "performance", TRUE)
       IN  IF IsFinite(score)
             THEN <<FMul(score, FromInt(100))>> \o FiniteScores(Tail(reports))
             ELSE FiniteScores(Tail(reports))

\* C10: perRunScores has one entry per report with a finite performance
\* score, in the order of the list, and none for the other reports.
C10_OnePerFiniteScore ==
  IsPerRunScores
  => LET kept == FiniteScores(ReportsOf(call.reports))
     IN  /\ Len(call.ret) = Len(kept)
         /\ \A i \in 1..Len(kept) : call.ret[i] = NumberOfFixed(kept[i], 2)

IsBarChart == call.fn = "BarChart"

\* the reports of a list whose performance score is not null, in the order of
\* the list
Charted(names) ==
  SelectSeq(ReportsOf(names),
            LAMBDA item : getValue(item.report, "performance", TRUE) # null)

\* the bar of the report at a position from 1 of the charted reports of a
\* list, and the bar shown where the list has none
ChartedBar(names, index) ==
  IF index <= Len(Charted(names))
    THEN LET score == NumberOfFixed(getValue(Charted(names)[index].report,
                                             "performance", TRUE), 2)
         IN  [tip |-> toFixed(score, 1),
              height |-> FMul(FDiv(score, FromInt(100)), FromInt(100))]
    ELSE [tip |-> "N/A", height |-> Zero]

\* C19: the chart has as many bar groups as the longer of its two sequences,
\* labelled 1, 2, ...; the group at a position shows, for each side, the bar
\* of the report at that position among the reports of that side that have a
\* score (a report without score moves the later ones down), and "N/A" with
\* zero height where that side has no report left.
C19_BarGroups ==
  IsBarChart
  => LET longer == IF Len(Charted(call.before)) >= Len(Charted(call.after))
                     THEN Len(Charted(call.before))
                     ELSE Len(Charted(call.after))
     IN  /\ Len(call.beforeData) = Len(Charted(call.before))
         /\ Len(call.afterData) = Len(Charted(call.after))
         /\ Len(call.ret) = longer
         /\ \A index \in 1..longer :
              /\ call.ret[index].label = index
              /\ call.ret[index].before = ChartedBar(call.before, index)
              /\ call.ret[index].after = ChartedBar(call.after, index)

\* a chart of two before reports, the first of which has no score, and of no
\* after report: the second before report is drawn at position 1, next to
\* "N/A" after
C19_Witness ==
  /\ IsBarChart
  /\ call.before = <<"c.json", "a.json">> /\ call.after = <<>>
  /\ Len(call.ret) = 1
  /\ call.ret[1].label = 1
  /\ call.ret[1].before.tip = "50.0"
  /\ call.ret[1].after = [tip |-> "N/A", height |-> Zero]

IsBuildComparison == call.fn = "buildComparison"

\* the before, after, deltaText and deltaClass of the row labelled
\* Performance of a category table
PerformanceRow(rows) ==
  LET row == rows[CHOOSE i \in 1..Len(rows) : rows[i].label = "Performance"]
  IN  [before |-> row.before, after |-> row.after,
       deltaText |-> row.deltaText, deltaClass |-> row.deltaClass]

\* C20: in every comparison the headline of a device (before, after, delta
\* text, delta class) is the Performance row of the category table of that
\* device.
C20_HeadlineIsPerformanceRow ==
  IsBuildComparison
  => /\ call.ret.desktopPerformance = PerformanceRow(call.ret.categoriesDesktop)
     /\ call.ret.mobilePerformance = PerformanceRow(call.ret.categoriesMobile)

\* a comparison of reports with different performance and accessibility
\* scores, whose desktop delta is good and whose mobile delta is bad
C20_Witness ==
  /\ IsBuildComparison
  /\ call.before = <<"a.json">> /\ call.after = <<"a.json", "b.json">>
  /\ call.ret.desktopPerformance.deltaClass = "good"
  /\ call.ret.mobilePerformance.deltaClass = "bad"
  /\ call.ret.desktopPerformance.before # call.ret.desktopPerformance.after

IsFmtValue == call.fn = "fmtValue"

\* C11: fmtValue(value, "ms") is "N/A" for null; for a non-null value it is
\* the seconds with two decimals and the suffix "s" exactly when
\* value >= 1000, and the whole milliseconds with the suffix "ms" exactly when
\* value < 1000.
C11_MsThreshold ==
  (IsFmtValue /\ call.unit = "ms")
  => /\ call.value = null => call.ret = "N/A"
     /\ call.value # null
          => /\ call.ret = toFixed(FDiv(call.value, FromInt(1000)), 2) \o "s"
                  <=> FGe(call.value, FromInt(1000))
             /\ call.ret = toFixed(call.value, 0) \o "ms"
                  <=> FLt(call.value, FromInt(1000))

(***************************************************************************)
(* Properties of the comparison and its reads, checked under Spec.         *)
(***************************************************************************)
\* the step in which the handleCompare invocation returns
AttemptEnds == attempt.active /\ ~attempt'.active

\* the files of the four lists an attempt reads
AttemptFiles ==
  UNION {{attempt.ordered[g][i] : i \in 1..Len(attempt.ordered[g])} :
           g \in Groups}

\* C7: an attempt all of whose files hold valid JSON, whatever the JSON is,
\* ends without the error and with a result.
C7_ValidJsonNeverFails ==
  [][(AttemptEnds /\ \A id \in AttemptFiles : File(id).raw.valid)
       => (error' = NoError /\ result'.set)]_vars

\* C8: an attempt one of whose files, in any of the four groups, does not
\* hold valid JSON ends with the error message set, the result null (also
\* when a result was displayed before) and loading over.
C8_ParseFailureAborts ==
  [][(AttemptEnds /\ \E id \in AttemptFiles : ~File(id).raw.valid)
       => (error' = ParseErrorMessage /\ result' = NoResult /\ ~loading')]_vars

\* C8 witness: the attempt that read the malformed file of a group whose
\* counterpart is empty, next to a valid mobile pair, has ended: the error is
\* set and no result is shown
C8_Witness ==
  /\ ~attempt.active /\ ~loading
  /\ attempt.ordered["beforeDesktop"] = <<"lh-1">>
  /\ attempt.ordered["afterDesktop"] = <<>>
  /\ attempt.ordered["beforeMobile"] = <<"run-2">>
  /\ attempt.ordered["afterMobile"] = <<"run-2">>
  /\ compares = 2
  /\ error = ParseErrorMessage /\ result = NoResult

\* the file names in numeric-aware order: the stem, then the run of digits
\* by its value, then the extension
NumericOrder(a, b) ==
  \/ a.stem = "lh-" /\ b.stem = "run-"
  \/ a.stem = b.stem /\ a.num < b.num
  \/ a.stem = b.stem /\ a.num = b.num /\ a.ext = ".json" /\ b.ext = ".txt"
  \/ a = b

\* C9: the four lists of an attempt are in numeric-aware filename order;
\* while the reads are under way the value of every completed read stands at
\* the index of its file, whichever reads completed before it; and the result
\* of a completed attempt is the comparison of the lists in that order.
C9_OrderIndependentOfCompletion ==
  /\ \A g \in Groups :
       \A i, j \in 1..Len(attempt.ordered[g]) :
         i < j => NumericOrder(File(attempt.ordered[g][i]).name,
                               File(attempt.ordered[g][j]).name)
  /\ attempt.active
       => \A g \in Groups :
            /\ Len(attempt.loaded[g]) = Len(attempt.ordered[g])
            /\ \A i \in 1..Len(attempt.ordered[g]) :
                 attempt.loaded[g][i] =
                   IF i \in attempt.reading[g] THEN ""
                   ELSE attempt.ordered[g][i]
  /\ (~attempt.active /\ result.set)
       => result.data = comparisonOf(attempt.ordered).data

\* C9 witness: of run-2 and run-10, sorted in this order, the read of run-10
\* completed first, after the reads of another group
C9_Witness ==
  /\ attempt.active
  /\ attempt.ordered["beforeDesktop"] = <<"run-2", "run-10">>
  /\ attempt.reading["beforeDesktop"] = {1}
  /\ attempt.loaded["beforeDesktop"] = <<"", "run-10">>
  /\ Len(attempt.ordered["afterDesktop"]) = 1
  /\ attempt.reading["afterDesktop"] = {}

\* every file an attempt read holds a JSON object
AllObjects == \A id \in AttemptFiles : loadedReport[id].v.k = "obj"

\* the performance scores times 100 of a list of files, read from the
\* documents; null where the score is not a number
ScoresOf(ids) ==
  [i \in 1..Len(ids) |->
     LET score == FieldOf(loadedReport[ids[i]], "performance", TRUE)
     IN  IF IsNumber(score) THEN FMul(score, FromInt(100)) ELSE null]

\* the headline of two lists of files: the averages of their scores and the
\* delta after minus before, classified higher-is-better
HeadlineOf(beforeIds, afterIds) ==
  LET b == avg(ScoresOf(beforeIds))
      a == avg(ScoresOf(afterIds))
      up == FGe(FSub(a, b), Zero)
  IN  IF b = null \/ a = null
        THEN [before |-> b, after |-> a, deltaText |-> "N/A",
              deltaClass |-> "neutral"]
        ELSE [before |-> b, after |-> a,
              deltaText |-> (IF up THEN "+" ELSE "") \o toFixed(FSub(a, b), 2),
              deltaClass |-> IF up THEN "good" ELSE "bad"]

\* the attempt read files of both groups of device d and of no other group
OnlyDevice(before, after, otherBefore, otherAfter) ==
  /\ attempt.ordered[before] # <<>> /\ attempt.ordered[after] # <<>>
  /\ attempt.ordered[otherBefore] = <<>> /\ attempt.ordered[otherAfter] = <<>>

\* C12: an attempt that read reports of the two desktop groups only ends
\* with a result and no error; the desktop headline is the averages of the
\* desktop scores times 100 with the delta classified higher-is-better, the
\* mobile headline is null / null / "N/A" / neutral, the mobile run sequences
\* are empty, the mobile counts are 0, and no mobile card, table or chart is
\* displayed.  Symmetrically for the two mobile groups only.
C12_SingleDevice ==
  [][(AttemptEnds /\ AllObjects)
       => /\ OnlyDevice("beforeDesktop", "afterDesktop", "beforeMobile",
                        "afterMobile")
               => /\ error' = NoError /\ result'.set
                  /\ result'.data.desktopPerformance =
                       HeadlineOf(attempt.ordered["beforeDesktop"],
                                  attempt.ordered["afterDesktop"])
                  /\ result'.data.mobilePerformance =
                       [before |-> null, after |-> null, deltaText |-> "N/A",
                        deltaClass |-> "neutral"]
                  /\ result'.data.mobileRuns = [before |-> <<>>, after |-> <<>>]
                  /\ result'.data.counts.beforeMobile = 0
                  /\ result'.data.counts.afterMobile = 0
                  /\ desktopCardShown' /\ desktopTablesShown'
                  /\ ~mobileCardShown' /\ ~mobileTablesShown'
                  /\ chartShown' = "desktop"
          /\ OnlyDevice("beforeMobile", "afterMobile", "beforeDesktop",
                        "afterDesktop")
               => /\ error' = NoError /\ result'.set
                  /\ result'.data.mobilePerformance =
                       HeadlineOf(attempt.ordered["beforeMobile"],
                                  attempt.ordered["afterMobile"])
                  /\ result'.data.desktopPerformance =
                       [before |-> null, after |-> null, deltaText |-> "N/A",
                        deltaClass |-> "neutral"]
                  /\ result'.data.desktopRuns = [before |-> <<>>, after |-> <<>>]
                  /\ result'.data.counts.beforeDesktop = 0
                  /\ result'.data.counts.afterDesktop = 0
                  /\ mobileCardShown' /\ mobileTablesShown'
                  /\ ~desktopCardShown' /\ ~desktopTablesShown'
                  /\ chartShown' = "mobile"]_vars

\* C12 witness: the comparison of run-2 (score 0.5) before and run-10 (score
\* 0.75) after on desktop alone is displayed: 50, 75, "+25.00", "good", and
\* nothing of mobile
C12_Witness ==
  /\ ~attempt.active /\ result.set
  /\ attempt.ordered["beforeDesktop"] = <<"run-2">>
  /\ attempt.ordered["afterDesktop"] = <<"run-10">>
  /\ attempt.ordered["beforeMobile"] = <<>>
  /\ attempt.ordered["afterMobile"] = <<>>
  /\ result.data.desktopPerformance =
       [before |-> FromInt(50), after |-> FromInt(75), deltaText |-> "+25.00",
        deltaClass |-> "good"]
  /\ result.data.mobilePerformance.before = null
  /\ desktopCardShown /\ ~mobileCardShown /\ chartShown = "desktop"

\* a device class has a complete pair: files in its before group and in its
\* after group
SomePair ==
  \/ beforeDesktopFiles # <<>> /\ afterDesktopFiles # <<>>
  \/ beforeMobileFiles # <<>> /\ afterMobileFiles # <<>>

\* C13: in every state the Compare button is enabled, and (within the
\* comparisons of a behaviour) handleCompare can be taken, exactly when no
\* comparison is loading and a device class has a complete pair.
C13_CompareEnabled ==
  /\ compareEnabled <=> (~loading /\ SomePair)
  /\ compares < MaxCompares
       => ((ENABLED handleCompare) <=> (~loading /\ SomePair))

\* C13 witness: a before group of desktop and the after group of mobile have
\* files, nothing is loading, and the comparison cannot be started
C13_Witness ==
  /\ beforeDesktopFiles = <<"run-2">> /\ afterDesktopFiles = <<>>
  /\ beforeMobileFiles = <<>> /\ afterMobileFiles = <<"run-2">>
  /\ ~loading /\ compares < MaxCompares
  /\ ~compareEnabled /\ ~ENABLED handleCompare

\* an invocation started with these four sorted lists ends in the catch
\* block: a text is not JSON, or buildComparison throws
Fails(ordered) ==
  \/ \E g \in Groups : \E i \in 1..Len(ordered[g]) :
       loadedReport[ordered[g][i]].v = Thrown
  \/ comparisonOf(ordered).threw

\* what an invocation started with these lists writes when it returns
Outcome(ordered) ==
  IF Fails(ordered)
    THEN [result |-> NoResult, error |-> ParseErrorMessage]
    ELSE [result |-> Result(comparisonOf(ordered).data), error |-> NoError]

\* two overlapping invocations have both returned
BothReturned == call # NoCall /\ ~call.active /\ ~attempt.active

\* the lists of the invocation that returned last, and of the other one
LastReturned == IF call.endedLast THEN call.ordered ELSE attempt.ordered
FirstReturned == IF call.endedLast THEN attempt.ordered ELSE call.ordered

C15_SnapshotOutcome ==
  [][AttemptEnds =>
       /\ result' = Outcome(attempt.ordered).result
       /\ error' = Outcome(attempt.ordered).error]_vars

\* two files added, one comparison started, all files cleared while its
\* reads were in flight: the result of the files it started with is shown
\* over four empty groups (a clear made after the attempt ended would have
\* removed the result, and one removal cannot empty two groups)
C15_Witness ==
  /\ compares = 1 /\ edits = 3
  /\ ~attempt.active /\ ~hasAnyFiles
  /\ result.set /\ result = Outcome(attempt.ordered).result

\* C16: a failed attempt is final.  Within an attempt the reads under way
\* only diminish, so that no file is read twice; the attempt that fails shows
\* no result and leaves no read under way; a result appears only in a step
\* of an attempt under way, and an attempt gets under way only by
\* handleCompare, which the user triggers.
C16_FailureIsTerminal ==
  [][/\ compares' = compares =>
          \A g \in Groups : attempt'.reading[g] \subseteq attempt.reading[g]
     /\ (AttemptEnds /\ error' = ParseErrorMessage) =>
          /\ result' = NoResult
          /\ \A g \in Groups : attempt'.reading[g] = {}
     /\ (~result.set /\ result'.set) => attempt.active
     /\ (~attempt.active /\ attempt'.active) =>
          compareEnabled /\ compares' = compares + 1]_vars

\* the first attempt, of several files one of which is not JSON, has failed:
\* nothing is read any more and no result is shown
C16_Witness ==
  /\ compares = 1 /\ ~attempt.active
  /\ "lh-1" \in AttemptFiles /\ Cardinality(AttemptFiles) >= 3
  /\ \A g \in Groups : attempt.reading[g] = {}
  /\ error = ParseErrorMessage /\ result = NoResult

\* C17: whenever no attempt is under way, the result shown is the value of
\* buildComparison for the four lists of the last attempt and nothing else:
\* the same lists give the same result after any number of comparisons,
\* results, errors, uploads, clears and swaps.
C17_ResultOfListsAlone ==
  (~attempt.active /\ result.set) =>
    /\ ~Fails(attempt.ordered)
    /\ result.data = (CHOOSE c \in comparisons :
                        c.loaded = attempt.ordered).data

\* a second comparison, made after a first one that failed on a file that was
\* then removed, shows the result of its two files
C17_Witness ==
  /\ compares = 2 /\ edits = 4 /\ ~attempt.active
  /\ attempt.ordered["beforeDesktop"] = <<"run-2">>
  /\ attempt.ordered["afterDesktop"] = <<"run-10">>
  /\ attempt.ordered["beforeMobile"] = <<>>
  /\ attempt.ordered["afterMobile"] = <<>>
  /\ result.set /\ error = NoError

\* the (name, size, last-modified) triple of a file
Triple(file) == <<file.name, file.size, file.lastModified>>

\* C18: whatever was selected, dropped, removed and cleared, no list holds two
\* files of the same (name, size, last-modified) triple, and every file of a
\* list has a name ending in .json or the type application/json.
C18_UniqueJsonFiles ==
  \A g \in Groups :
    /\ \A i, j \in 1..Len(FilesOf(g)) :
         Triple(File(FilesOf(g)[i])) = Triple(File(FilesOf(g)[j])) => i = j
    /\ \A i \in 1..Len(FilesOf(g)) :
         \/ File(FilesOf(g)[i]).name.ext = ".json"
         \/ File(FilesOf(g)[i]).type = "application/json"

\* after three edits or more the list holds two files named run-2.json of
\* different sizes and the JSON-typed file without extension
C18_Witness ==
  /\ edits >= 3
  /\ Len(beforeDesktopFiles) = 3
  /\ {beforeDesktopFiles[i] : i \in 1..3} = {"run-2", "run-2 resized", "run-5"}

\* C21: an error message and a result are never displayed together: while
\* the error is set there is no result, and while a result is shown,
\* as after a comparison that succeeded, there is no error.
C21_ErrorExcludesResult ==
  /\ error # NoError => result = NoResult
  /\ result.set => error = NoError

\* the second comparison, of three files one of which is not JSON, has
\* failed: the error is displayed and no result is
C21_Witness ==
  /\ compares = 2 /\ edits = 3 /\ ~attempt.active /\ ~loading
  /\ "lh-1" \in AttemptFiles /\ Cardinality(AttemptFiles) = 3
  /\ error = ParseErrorMessage /\ result = NoResult

\* C22: once a group was cleared, all files were cleared or before and after
\* were swapped, neither a result nor an error is displayed as long as no
\* comparison started after that has completed; a comparison that was under
\* way at that moment makes no result appear.
C22_NothingShownAfterClear ==
  attempt.cleared => result = NoResult /\ error = NoError

\* the keys of the files of a list
KeysOf(list) == {fileKey(File(list[i])) : i \in 1..Len(list)}

\* C23: when a drop completes, the files added to its group since the drop
\* began are still in the list, and the files removed or cleared from it
\* since then, unless they were dropped themselves, are not in the list again.
C23_DropPreservesChanges ==
  [][(call # NoCall /\ call.fn = "onDrop" /\ call' = NoCall)
       => LET before == KeysOf(call.files)
              now == KeysOf(FilesOf(call.group))
              dropped == KeysOf(call.dropped)
              after ==
                KeysOf(CASE call.group = "beforeDesktop" -> beforeDesktopFiles'
                         [] call.group = "afterDesktop" -> afterDesktopFiles'
                         [] call.group = "beforeMobile" -> beforeMobileFiles'
                         [] OTHER -> afterMobileFiles')
          IN  /\ (now \ before) \subseteq after
              /\ ((before \ now) \ dropped) \cap after = {}]_vars

\* C24: while a result is displayed, one device at least has reports before
\* and after; the chart drawn is that of a device that has both; it is the
\* desktop chart when only desktop has them and the mobile chart when only
\* mobile has them, whatever the active tab was; with both, it is the chart
\* of the active tab, and the tabs are offered then and only then.
C24_ChartOfADeviceWithResult ==
  result.set =>
    LET d == hasDesktopResult(result.data)
        m == hasMobileResult(result.data)
    IN  /\ d \/ m
        /\ chartShown \in {"desktop", "mobile"}
        /\ chartShown = "desktop" => d
        /\ chartShown = "mobile" => m
        /\ (d /\ ~m) => chartShown = "desktop"
        /\ (~d /\ m) => chartShown = "mobile"
        /\ (d /\ m) => chartShown = activePerformanceTab
        /\ tabsShown <=> (d /\ m)

\* the first comparison, of mobile reports only, has succeeded: the tab, which
\* was the desktop one, is the mobile one and the mobile chart is drawn
C24_Witness ==
  /\ compares = 1 /\ ~attempt.active /\ result.set
  /\ ~hasDesktopResult(result.data) /\ hasMobileResult(result.data)
  /\ activePerformanceTab = "mobile"
  /\ chartShown = "mobile" /\ ~tabsShown

\* C25: one comparison at most is in flight. An invocation of handleCompare
\* is awaiting its reads exactly while loading is set; the Compare button is
\* disabled all that time; and an invocation starts only from a state where
\* none is in flight, so that it is the only one until it has returned.
C25_OneComparisonInFlight ==
  /\ [](attempt.active <=> loading)
  /\ [](loading => ~compareEnabled)
  /\ [][compares' # compares
         => /\ ~attempt.active /\ ~loading
            /\ attempt'.active /\ loading']_vars
  /\ [][(attempt.active /\ attempt'.active)
         => /\ compares' = compares
            /\ attempt'.ordered = attempt.ordered]_vars

\* the first comparison is in flight with a desktop pair selected: one list
\* has been read, the other has not, and a second comparison, which the
\* bound on comparisons would allow, cannot be started
C25_Witness ==
  /\ compares = 1 /\ compares < MaxCompares
  /\ attempt.active /\ loading
  /\ hasDesktopPair /\ canCompare /\ ~compareEnabled
  /\ attempt.reading["beforeDesktop"] = {}
  /\ attempt.reading["afterDesktop"] # {}
  /\ ~ENABLED handleCompare

=============================================================================
